---- MODULE Spec2Model ----
(***************************************************************************)
(* A model of ServiceBusManagementClient                                   *)
(* (azure/servicebus/management/_management_client.py).                    *)
(*                                                                         *)
(* The client holds no state between calls, so the state of the model is   *)
(* the last public call, the response the server gave to it, the requests  *)
(* the call sent to the generated stub layer, and what the call gave back  *)
(* to its caller.  Paged listings add the state of the page cursor.  The   *)
(* fields the client is constructed with, and the transport that close     *)
(* and the exit of a `with` block release, are kept in `client`.           *)
(***************************************************************************)
EXTENDS Integers, Sequences, FiniteSets, TLC

VARIABLES
    call,       \* the last public call: operation, arguments, keyword arguments
    response,   \* what the stub answered to that call (the server's side)
    requests,   \* the requests the call made to the stub layer, in order
    outcome,    \* what the caller got: a return value or a raised error
    fetched,    \* for an update: the wire entity its argument was fetched from
    feed,       \* paging: the pages the server will serve for the listing
    pager,      \* paging: the cursor of the sequence a list_X call returned
    yielded,    \* paging: the objects the consumer has been given so far
    client,     \* the fields of the client object: namespace, credential, pipeline
    scoped,     \* the caller is inside a `with client:` block
    earlier     \* for a get that repeats the get before it: that get's requests

vars == <<call, response, requests, outcome, fetched, feed, pager, yielded,
          client, scoped, earlier>>

(***************************************************************************)
(* Python values.  Every value is a record with a type field, so that a    *)
(* name, None, a number and a description object can stand at the same     *)
(* argument.                                                               *)
(***************************************************************************)
None == [type |-> "NoneType"]
Str(s) == [type |-> "str", s |-> s]
PyBool(b) == [type |-> "bool", val |-> IF b THEN 1 ELSE 0]
PyInt(i) == [type |-> "int", val |-> i]
Timedelta(t) == [type |-> "timedelta", val |-> t]

\* Python truth value: None, "", False, 0 and timedelta(0) are falsy.
Truthy(v) ==
    CASE v.type = "NoneType" -> FALSE
      [] v.type = "str" -> v.s # ""
      [] v.type \in {"bool", "int", "timedelta"} -> v.val # 0
      [] OTHER -> TRUE

\* Python's `a or b`.
PyOr(a, b) == IF Truthy(a) THEN a ELSE b


(***************************************************************************)
(* Bounds of the model.                                                    *)
(***************************************************************************)
\* Keyword overrides given to one update call.
MaxOverrides == 1
\* Pages of one listing, and entries of one page.
MaxPages == 2
MaxPageLen == 2

(***************************************************************************)
(* Results of a call, and errors.                                          *)
(***************************************************************************)
Return(v) == [kind |-> "return", value |-> v]
Raise(e) == [kind |-> "raise", exc |-> e]

\* An error built as "<template>".format(*args).
Exc(type, template, args) == [type |-> type, template |-> template, args |-> args]

\* The error the generated stub raises for a failed call (4xx/5xx, bad XML,
\* network failure), as the stub raises it.
StubError == [type |-> "HttpResponseError", normalized |-> FALSE]

\* _handle_response_error: the boundary around a stub call re-raises the
\* stub's error as the normalized service error.
_handle_response_error(err) == [err EXCEPT !.normalized = TRUE]

\* constants.API_VERSION, attached to every stub call.
API_VERSION == "constants.API_VERSION"

\* What the stub answers: an element, or a failure.
Ok(element) == [status |-> "ok", element |-> element]
Failed == [status |-> "error"]
NoResponse == [status |-> "none"]

\* A stub call made inside `with _handle_response_error():`, and one made
\* outside of it, as a request record.  `guarded` is the position of the
\* call in the source, inside or outside the with block.
Request(group, method, path, body, if_match, guarded, options) ==
    [group |-> group, method |-> method, path |-> path, body |-> body,
     if_match |-> if_match, guarded |-> guarded, options |-> options,
     api_version |-> API_VERSION]

\* The error that reaches the caller when the stub call of `req` fails.
StubFailure(req) ==
    IF req.guarded THEN Raise(_handle_response_error(StubError)) ELSE Raise(StubError)

\* The result of a handler: the requests it sent and what the caller got.
Result(reqs, out) == [requests |-> reqs, outcome |-> out]

(***************************************************************************)
(* Keyword arguments: a function from the keywords given to their values.  *)
(***************************************************************************)
NoKwargs == [k \in {} |-> None]

\* kwargs.get(key): None when the keyword was not given.
KwGet(kwargs, key) == IF key \in DOMAIN kwargs THEN kwargs[key] ELSE None

(***************************************************************************)
(* Wire entities (the generated models) and domain objects (_models).      *)
(***************************************************************************)
\* Upper limit of a duration the wire format takes.
TD_LIMIT == 3

\* avoid_timedelta_overflow: a duration above the limit is clamped to it.
avoid_timedelta_overflow(td) ==
    IF td.type = "timedelta" /\ td.val > TD_LIMIT THEN Timedelta(TD_LIMIT) ELSE td

QueueFields ==
    {"default_message_time_to_live", "lock_duration",
     "dead_lettering_on_message_expiration",
     "duplicate_detection_history_time_window", "max_delivery_count"}

TopicFields ==
    {"default_message_time_to_live", "duplicate_detection_history_time_window"}

InternalQueueDescription(name, ttl, lock, dl, dup, mdc, idle) ==
    [type |-> "InternalQueueDescription", name |-> name,
     default_message_time_to_live |-> ttl, lock_duration |-> lock,
     dead_lettering_on_message_expiration |-> dl,
     duplicate_detection_history_time_window |-> dup,
     max_delivery_count |-> mdc, auto_delete_on_idle |-> idle]

InternalTopicDescription(name, ttl, dup, idle) ==
    [type |-> "InternalTopicDescription", name |-> name,
     default_message_time_to_live |-> ttl,
     duplicate_detection_history_time_window |-> dup,
     auto_delete_on_idle |-> idle]

InternalSubscriptionDescription(name, ttl, idle) ==
    [type |-> "InternalSubscriptionDescription", name |-> name,
     default_message_time_to_live |-> ttl, auto_delete_on_idle |-> idle]

InternalRuleDescription(name, filter) ==
    [type |-> "InternalRuleDescription", name |-> name, filter |-> filter]

\* InternalXDescription(): the empty wire entity, every field unset.
EmptyInternalQueueDescription ==
    InternalQueueDescription(None, None, None, None, None, None, None)
EmptyInternalTopicDescription == InternalTopicDescription(None, None, None, None)
EmptyInternalSubscriptionDescription == InternalSubscriptionDescription(None, None, None)
EmptyInternalRuleDescription == InternalRuleDescription(None, None)

\* XDescription._from_internal_entity: the domain object with the fields of
\* the wire entity.
_from_internal_entity(cls, internal) == [internal EXCEPT !.type = cls]

\* XDescription._to_internal_entity: the wire entity with the fields of the
\* domain object; only a rule's wire entity carries the name.
_to_internal_entity(obj) ==
    CASE obj.type = "QueueDescription" ->
            [obj EXCEPT !.type = "InternalQueueDescription", !.name = None]
      [] obj.type = "TopicDescription" ->
            [obj EXCEPT !.type = "InternalTopicDescription", !.name = None]
      [] obj.type = "SubscriptionDescription" ->
            [obj EXCEPT !.type = "InternalSubscriptionDescription", !.name = None]
      [] obj.type = "RuleDescription" ->
            [obj EXCEPT !.type = "InternalRuleDescription"]

\* Whether the code's `x.name` / `x._to_internal_entity()` succeed: a str or
\* None has neither attribute (AttributeError).
HasName(x) ==
    x.type \in {"QueueDescription", "TopicDescription",
                "SubscriptionDescription", "RuleDescription"}

\* The entry envelope of a single-entity response.  content is None when the
\* envelope has no content, else the wrapper of the wire entity.
Entry(title, content) == [type |-> "Entry", title |-> title, content |-> content]
Content(description) == [type |-> "Content", description |-> description]


(***************************************************************************)
(* Shared steps of the handlers.                                           *)
(***************************************************************************)
\* try: name = x.name / except AttributeError: name = x
ResolveName(x) == IF HasName(x) THEN x.name ELSE x

\* _get_entity_element, _get_subscription_element, _get_rule_element: the
\* GET, made inside the error boundary.
_get_entity_element(entity_name, kwargs) ==
    Request("entity", "get", <<entity_name>>, None, None, TRUE, kwargs)

_get_subscription_element(topic_name, subscription_name, kwargs) ==
    Request("subscription", "get", <<topic_name, subscription_name>>, None, None,
            TRUE, kwargs)

_get_rule_element(topic_name, subscription_name, rule_name, kwargs) ==
    Request("rule", "get", <<topic_name, subscription_name, rule_name>>, None, None,
            TRUE, kwargs)

\* `entry.content.x_description` on an entry without content.
NoContentAttribute ==
    Raise(Exc("AttributeError", "'NoneType' object has no attribute", <<>>))

\* The common shape of the get handlers: one GET; on an empty content the
\* not-found error `missing`; else the object built by `found`.
NotFound(template, args) == Raise(Exc("ResourceNotFoundError", template, args))

(***************************************************************************)
(* Queues.                                                                 *)
(***************************************************************************)
get_queue(queue_name, kwargs, resp) ==
    LET req == _get_entity_element(queue_name, kwargs) IN
    IF resp.status = "error" THEN Result(<<req>>, StubFailure(req))
    ELSE LET entry == resp.element IN
         IF ~Truthy(entry.content)
         THEN Result(<<req>>, NotFound("Queue '{}' does not exist", <<queue_name>>))
         ELSE LET queue_description ==
                      _from_internal_entity("QueueDescription", entry.content.description)
              IN Result(<<req>>, Return([queue_description EXCEPT !.name = queue_name]))

get_queue_runtime_info(queue_name, kwargs, resp) ==
    LET req == _get_entity_element(queue_name, kwargs) IN
    IF resp.status = "error" THEN Result(<<req>>, StubFailure(req))
    ELSE LET entry == resp.element IN
         IF ~Truthy(entry.content)
         THEN Result(<<req>>, NotFound("Queue {} does not exist", <<queue_name>>))
         ELSE LET runtime_info ==
                      _from_internal_entity("QueueRuntimeInfo", entry.content.description)
              IN Result(<<req>>, Return([runtime_info EXCEPT !.name = queue_name]))

create_queue(queue, kwargs, resp) ==
    LET queue_name == IF HasName(queue) THEN queue.name ELSE queue
        to_create == IF HasName(queue) THEN _to_internal_entity(queue)
                     ELSE EmptyInternalQueueDescription
        req == Request("entity", "put", <<queue_name>>, Content(to_create), None,
                       TRUE, kwargs)
    IN
    IF resp.status = "error" THEN Result(<<req>>, StubFailure(req))
    ELSE LET entry == resp.element IN
         IF entry.content = None THEN Result(<<req>>, NoContentAttribute)
         ELSE LET result ==
                      _from_internal_entity("QueueDescription", entry.content.description)
              IN Result(<<req>>, Return([result EXCEPT !.name = queue_name]))

\* The overlay of update_queue with the lock duration taken from the
\* keyword alone.
QueueOverlayLockFromKeyword(to_update, queue_description, kwargs) ==
    [to_update EXCEPT
        !.default_message_time_to_live =
            PyOr(KwGet(kwargs, "default_message_time_to_live"),
                 queue_description.default_message_time_to_live),
        !.lock_duration = KwGet(kwargs, "lock_duration"),
        !.dead_lettering_on_message_expiration =
            PyOr(KwGet(kwargs, "dead_lettering_on_message_expiration"),
                 queue_description.dead_lettering_on_message_expiration),
        !.duplicate_detection_history_time_window =
            PyOr(KwGet(kwargs, "duplicate_detection_history_time_window"),
                 queue_description.duplicate_detection_history_time_window),
        !.max_delivery_count =
            PyOr(KwGet(kwargs, "max_delivery_count"),
                 queue_description.max_delivery_count)]

\* The overlay of update_queue: each allow-listed field from the keyword
\* override, or else from the object.
QueueOverlay(to_update, queue_description, kwargs) ==
    [to_update EXCEPT
        !.default_message_time_to_live =
            PyOr(KwGet(kwargs, "default_message_time_to_live"),
                 queue_description.default_message_time_to_live),
        !.lock_duration =
            PyOr(KwGet(kwargs, "lock_duration"), queue_description.lock_duration),
        !.dead_lettering_on_message_expiration =
            PyOr(KwGet(kwargs, "dead_lettering_on_message_expiration"),
                 queue_description.dead_lettering_on_message_expiration),
        !.duplicate_detection_history_time_window =
            PyOr(KwGet(kwargs, "duplicate_detection_history_time_window"),
                 queue_description.duplicate_detection_history_time_window),
        !.max_delivery_count =
            PyOr(KwGet(kwargs, "max_delivery_count"),
                 queue_description.max_delivery_count)]

\* The two clamped durations of update_queue, update_topic, update_subscription.
ClampDurations(to_update) ==
    [to_update EXCEPT
        !.default_message_time_to_live =
            avoid_timedelta_overflow(to_update.default_message_time_to_live),
        !.auto_delete_on_idle = avoid_timedelta_overflow(to_update.auto_delete_on_idle)]

\* update_queue taking the overrides out of the keyword arguments
\* (kwargs.pop) before it forwards them.
update_queue_consuming_overrides(queue_description, kwargs, resp) ==
    IF queue_description.type # "QueueDescription"
    THEN Result(<<>>, Raise(Exc("TypeError",
                "queue_description must be of type QueueDescription", <<>>)))
    ELSE LET internal_description == _to_internal_entity(queue_description)
             to_update == ClampDurations(
                 QueueOverlay(internal_description, queue_description, kwargs))
             rest == [k \in DOMAIN kwargs \ QueueFields |-> kwargs[k]]
             req == Request("entity", "put", <<queue_description.name>>,
                            Content(to_update), Str("*"), TRUE, rest)
         IN IF resp.status = "error" THEN Result(<<req>>, StubFailure(req))
            ELSE Result(<<req>>, Return(None))

update_queue(queue_description, kwargs, resp) ==
    IF queue_description.type # "QueueDescription"
    THEN Result(<<>>, Raise(Exc("TypeError",
                "queue_description must be of type QueueDescription", <<>>)))
    ELSE LET internal_description == _to_internal_entity(queue_description)
             to_update == ClampDurations(
                 QueueOverlay(internal_description, queue_description, kwargs))
             req == Request("entity", "put", <<queue_description.name>>,
                            Content(to_update), Str("*"), TRUE, kwargs)
         IN IF resp.status = "error" THEN Result(<<req>>, StubFailure(req))
            ELSE Result(<<req>>, Return(None))

\* delete_queue testing its argument in place of the resolved name.
delete_queue_unresolved(queue, kwargs, resp) ==
    LET queue_name == ResolveName(queue) IN
    IF ~Truthy(queue)
    THEN Result(<<>>, Raise(Exc("ValueError", "queue_name must not be None or empty", <<>>)))
    ELSE LET req == Request("entity", "delete", <<queue_name>>, None, None, TRUE, kwargs)
         IN IF resp.status = "error" THEN Result(<<req>>, StubFailure(req))
            ELSE Result(<<req>>, Return(None))

delete_queue(queue, kwargs, resp) ==
    LET queue_name == ResolveName(queue) IN
    IF ~Truthy(queue_name)
    THEN Result(<<>>, Raise(Exc("ValueError", "queue_name must not be None or empty", <<>>)))
    ELSE LET req == Request("entity", "delete", <<queue_name>>, None, None, TRUE, kwargs)
         IN IF resp.status = "error" THEN Result(<<req>>, StubFailure(req))
            ELSE Result(<<req>>, Return(None))


(***************************************************************************)
(* Topics.                                                                 *)
(***************************************************************************)
get_topic(topic_name, kwargs, resp) ==
    LET req == _get_entity_element(topic_name, kwargs) IN
    IF resp.status = "error" THEN Result(<<req>>, StubFailure(req))
    ELSE LET entry == resp.element IN
         IF ~Truthy(entry.content)
         THEN Result(<<req>>, NotFound("Topic '{}' does not exist", <<topic_name>>))
         ELSE LET topic_description ==
                      _from_internal_entity("TopicDescription", entry.content.description)
              IN Result(<<req>>, Return([topic_description EXCEPT !.name = topic_name]))

get_topic_runtime_info(topic_name, kwargs, resp) ==
    LET req == _get_entity_element(topic_name, kwargs) IN
    IF resp.status = "error" THEN Result(<<req>>, StubFailure(req))
    ELSE LET entry == resp.element IN
         IF ~Truthy(entry.content)
         THEN Result(<<req>>, NotFound("Topic {} does not exist", <<topic_name>>))
         ELSE LET topic_description ==
                      _from_internal_entity("TopicRuntimeInfo", entry.content.description)
              IN Result(<<req>>, Return([topic_description EXCEPT !.name = topic_name]))

\* create_topic asking first whether the topic exists.
create_topic_checking_first(topic, kwargs, resp) ==
    LET topic_name == IF HasName(topic) THEN topic.name ELSE topic
        to_create == IF HasName(topic) THEN _to_internal_entity(topic)
                     ELSE EmptyInternalTopicDescription
        check == _get_entity_element(topic_name, kwargs)
        req == Request("entity", "put", <<topic_name>>, Content(to_create), None,
                       TRUE, kwargs)
    IN
    IF resp.status = "error" THEN Result(<<check, req>>, StubFailure(req))
    ELSE LET entry == resp.element IN
         IF entry.content = None THEN Result(<<check, req>>, NoContentAttribute)
         ELSE LET result ==
                      _from_internal_entity("TopicDescription", entry.content.description)
              IN Result(<<check, req>>, Return([result EXCEPT !.name = topic_name]))

create_topic(topic, kwargs, resp) ==
    LET topic_name == IF HasName(topic) THEN topic.name ELSE topic
        to_create == IF HasName(topic) THEN _to_internal_entity(topic)
                     ELSE EmptyInternalTopicDescription
        req == Request("entity", "put", <<topic_name>>, Content(to_create), None,
                       TRUE, kwargs)
    IN
    IF resp.status = "error" THEN Result(<<req>>, StubFailure(req))
    ELSE LET entry == resp.element IN
         IF entry.content = None THEN Result(<<req>>, NoContentAttribute)
         ELSE LET result ==
                      _from_internal_entity("TopicDescription", entry.content.description)
              IN Result(<<req>>, Return([result EXCEPT !.name = topic_name]))

\* The overlay of update_topic.
TopicOverlay(to_update, topic_description, kwargs) ==
    [to_update EXCEPT
        !.default_message_time_to_live =
            PyOr(KwGet(kwargs, "default_message_time_to_live"),
                 topic_description.default_message_time_to_live),
        !.duplicate_detection_history_time_window =
            PyOr(KwGet(kwargs, "duplicate_detection_history_time_window"),
                 topic_description.duplicate_detection_history_time_window)]

\* update_topic sending its PUT without the precondition.
update_topic_unconditional(topic_description, kwargs, resp) ==
    IF topic_description.type # "TopicDescription"
    THEN Result(<<>>, Raise(Exc("TypeError",
                "topic_description must be of type TopicDescription", <<>>)))
    ELSE LET internal_description == _to_internal_entity(topic_description)
             to_update == ClampDurations(
                 TopicOverlay(internal_description, topic_description, kwargs))
             req == Request("entity", "put", <<topic_description.name>>,
                            Content(to_update), None, TRUE, kwargs)
         IN IF resp.status = "error" THEN Result(<<req>>, StubFailure(req))
            ELSE Result(<<req>>, Return(None))

update_topic(topic_description, kwargs, resp) ==
    IF topic_description.type # "TopicDescription"
    THEN Result(<<>>, Raise(Exc("TypeError",
                "topic_description must be of type TopicDescription", <<>>)))
    ELSE LET internal_description == _to_internal_entity(topic_description)
             to_update == ClampDurations(
                 TopicOverlay(internal_description, topic_description, kwargs))
             req == Request("entity", "put", <<topic_description.name>>,
                            Content(to_update), Str("*"), TRUE, kwargs)
         IN IF resp.status = "error" THEN Result(<<req>>, StubFailure(req))
            ELSE Result(<<req>>, Return(None))

delete_topic(topic, kwargs, resp) ==
    LET topic_name == ResolveName(topic)
        req == Request("entity", "delete", <<topic_name>>, None, None, FALSE, kwargs)
    IN IF resp.status = "error" THEN Result(<<req>>, StubFailure(req))
       ELSE Result(<<req>>, Return(None))

(***************************************************************************)
(* Subscriptions.                                                          *)
(***************************************************************************)
get_subscription(topic, subscription_name, kwargs, resp) ==
    LET topic_name == ResolveName(topic)
        req == _get_subscription_element(topic_name, subscription_name, kwargs)
    IN
    IF resp.status = "error" THEN Result(<<req>>, StubFailure(req))
    ELSE LET entry == resp.element IN
         IF ~Truthy(entry.content)
         THEN Result(<<req>>,
                     NotFound("Subscription('Topic: {}, Subscription: {}') does not exist",
                              <<subscription_name, topic_name>>))
         ELSE LET subscription == _from_internal_entity("SubscriptionDescription",
                                                        entry.content.description)
              IN Result(<<req>>, Return([subscription EXCEPT !.name = entry.title]))

get_subscription_runtime_info(topic, subscription_name, kwargs, resp) ==
    LET topic_name == ResolveName(topic)
        req == _get_subscription_element(topic_name, subscription_name, kwargs)
    IN
    IF resp.status = "error" THEN Result(<<req>>, StubFailure(req))
    ELSE LET entry == resp.element IN
         IF ~Truthy(entry.content)
         THEN Result(<<req>>,
                     NotFound("Subscription('Topic: {}, Subscription: {}') does not exist",
                              <<subscription_name, topic_name>>))
         ELSE LET subscription == _from_internal_entity("SubscriptionRuntimeInfo",
                                                        entry.content.description)
              IN Result(<<req>>, Return([subscription EXCEPT !.name = entry.title]))

create_subscription(topic, subscription, kwargs, resp) ==
    LET topic_name == ResolveName(topic)
        subscription_name == IF HasName(subscription) THEN subscription.name
                             ELSE subscription
        to_create == IF HasName(subscription) THEN _to_internal_entity(subscription)
                     ELSE EmptyInternalSubscriptionDescription
        req == Request("subscription", "put", <<topic_name, subscription_name>>,
                       Content(to_create), None, TRUE, kwargs)
    IN
    IF resp.status = "error" THEN Result(<<req>>, StubFailure(req))
    ELSE LET entry == resp.element IN
         IF entry.content = None THEN Result(<<req>>, NoContentAttribute)
         ELSE LET result == _from_internal_entity("SubscriptionDescription",
                                                  entry.content.description)
              IN Result(<<req>>, Return([result EXCEPT !.name = subscription_name]))

update_subscription(topic, subscription_description, kwargs, resp) ==
    LET topic_name == ResolveName(topic) IN
    IF subscription_description.type # "SubscriptionDescription"
    THEN Result(<<>>, Raise(Exc("TypeError",
                "subscription_description must be of type SubscriptionDescription", <<>>)))
    ELSE LET internal_description == _to_internal_entity(subscription_description)
             to_update == ClampDurations(internal_description)
             req == Request("subscription", "put",
                            <<topic_name, subscription_description.name>>,
                            Content(to_update), Str("*"), TRUE, kwargs)
         IN IF resp.status = "error" THEN Result(<<req>>, StubFailure(req))
            ELSE Result(<<req>>, Return(None))

\* delete_subscription sending its topic argument as it was given.
delete_subscription_topic_as_given(topic, subscription, kwargs, resp) ==
    LET topic_name == topic
        subscription_name == ResolveName(subscription)
        req == Request("subscription", "delete", <<topic_name, subscription_name>>,
                       None, None, FALSE, kwargs)
    IN IF resp.status = "error" THEN Result(<<req>>, StubFailure(req))
       ELSE Result(<<req>>, Return(None))

delete_subscription(topic, subscription, kwargs, resp) ==
    LET topic_name == ResolveName(topic)
        subscription_name == ResolveName(subscription)
        req == Request("subscription", "delete", <<topic_name, subscription_name>>,
                       None, None, FALSE, kwargs)
    IN IF resp.status = "error" THEN Result(<<req>>, StubFailure(req))
       ELSE Result(<<req>>, Return(None))

(***************************************************************************)
(* Rules.                                                                  *)
(***************************************************************************)
\* get_rule without its test of the content.
get_rule_unchecked(topic, subscription, rule_name, kwargs, resp) ==
    LET topic_name == ResolveName(topic)
        subscription_name == ResolveName(subscription)
        req == _get_rule_element(topic_name, subscription_name, rule_name, kwargs)
    IN
    IF resp.status = "error" THEN Result(<<req>>, StubFailure(req))
    ELSE LET entry == resp.element IN
         IF entry.content = None THEN Result(<<req>>, NoContentAttribute)
         ELSE Result(<<req>>, Return(_from_internal_entity("RuleDescription",
                                                           entry.content.description)))

get_rule(topic, subscription, rule_name, kwargs, resp) ==
    LET topic_name == ResolveName(topic)
        subscription_name == ResolveName(subscription)
        req == _get_rule_element(topic_name, subscription_name, rule_name, kwargs)
    IN
    IF resp.status = "error" THEN Result(<<req>>, StubFailure(req))
    ELSE LET entry == resp.element IN
         IF ~Truthy(entry.content)
         THEN Result(<<req>>,
                     NotFound("Rule('Topic: {}, Subscription: {}, Rule {}') does not exist",
                              <<subscription_name, topic_name, rule_name>>))
         ELSE Result(<<req>>, Return(_from_internal_entity("RuleDescription",
                                                           entry.content.description)))

create_rule(topic, subscription, rule, kwargs, resp) ==
    LET topic_name == ResolveName(topic)
        subscription_name == ResolveName(subscription)
        rule_name == IF HasName(rule) THEN rule.name ELSE rule
        to_create == IF HasName(rule) THEN _to_internal_entity(rule)
                     ELSE EmptyInternalRuleDescription
        req == Request("rule", "put", <<topic_name, subscription_name, rule_name>>,
                       Content(to_create), None, TRUE, kwargs)
    IN
    IF resp.status = "error" THEN Result(<<req>>, StubFailure(req))
    ELSE LET entry == resp.element IN
         IF entry.content = None THEN Result(<<req>>, NoContentAttribute)
         ELSE Result(<<req>>, Return(entry.content.description))

\* update_rule with its type test after the PUT.
update_rule_late_check(topic, subscription, rule_description, kwargs, resp) ==
    LET topic_name == ResolveName(topic)
        subscription_name == ResolveName(subscription)
        req == Request("rule", "put",
                       <<topic_name, subscription_name, ResolveName(rule_description)>>,
                       Content(rule_description), Str("*"), TRUE, kwargs)
    IN IF resp.status = "error" THEN Result(<<req>>, StubFailure(req))
       ELSE IF rule_description.type # "RuleDescription"
       THEN Result(<<req>>, Raise(Exc("TypeError",
                   "rule_description must be of type RuleDescription", <<>>)))
       ELSE Result(<<req>>, Return(None))

update_rule(topic, subscription, rule_description, kwargs, resp) ==
    IF rule_description.type # "RuleDescription"
    THEN Result(<<>>, Raise(Exc("TypeError",
                "rule_description must be of type RuleDescription", <<>>)))
    ELSE LET topic_name == ResolveName(topic)
             subscription_name == ResolveName(subscription)
             to_update == _to_internal_entity(rule_description)
             req == Request("rule", "put",
                            <<topic_name, subscription_name, rule_description.name>>,
                            Content(to_update), Str("*"), TRUE, kwargs)
         IN IF resp.status = "error" THEN Result(<<req>>, StubFailure(req))
            ELSE Result(<<req>>, Return(None))

delete_rule(topic, subscription, rule, kwargs, resp) ==
    LET topic_name == ResolveName(topic)
        subscription_name == ResolveName(subscription)
        rule_name == ResolveName(rule)
        req == Request("rule", "delete", <<topic_name, subscription_name, rule_name>>,
                       None, None, FALSE, kwargs)
    IN IF resp.status = "error" THEN Result(<<req>>, StubFailure(req))
       ELSE Result(<<req>>, Return(None))

(***************************************************************************)
(* Namespace.                                                              *)
(***************************************************************************)
get_namespace_properties(kwargs, resp) ==
    LET req == Request("namespace", "get", <<>>, None, None, FALSE, kwargs) IN
    IF resp.status = "error" THEN Result(<<req>>, StubFailure(req))
    ELSE LET namespace_entry == resp.element IN
         IF namespace_entry.content = None THEN Result(<<req>>, NoContentAttribute)
         ELSE Result(<<req>>, Return(namespace_entry.content.description))


(***************************************************************************)
(* The inputs of the model: what callers pass and what the server answers. *)
(***************************************************************************)
\* Names a caller passes: a name, the empty name, no name.
NameArgs == {Str("a"), Str(""), None}
\* Titles of the entries the server sends, and names inside their content.
Titles == {Str("a"), Str("b")}
ContentNames == {None, Str("b")}

TtlValues == {Timedelta(0), Timedelta(1), Timedelta(TD_LIMIT + 1)}
DurationValues == {Timedelta(1), Timedelta(2)}
IdleValues == {Timedelta(1), Timedelta(TD_LIMIT + 1)}
BoolValues == {PyBool(FALSE), PyBool(TRUE)}
CountValues == {PyInt(1), PyInt(2)}

QueueEntities ==
    {InternalQueueDescription(n, ttl, lock, dl, dup, mdc, idle) :
        n \in ContentNames, ttl \in TtlValues, lock \in DurationValues,
        dl \in BoolValues, dup \in DurationValues, mdc \in CountValues,
        idle \in IdleValues}

TopicEntities ==
    {InternalTopicDescription(n, ttl, dup, idle) :
        n \in ContentNames, ttl \in TtlValues, dup \in DurationValues,
        idle \in IdleValues}

SubscriptionEntities ==
    {InternalSubscriptionDescription(n, ttl, idle) :
        n \in ContentNames, ttl \in TtlValues, idle \in IdleValues}

RuleEntities ==
    {InternalRuleDescription(n, f) : n \in ContentNames \cup {Str("a")},
                                     f \in {Str("1=1"), Str("x>0")}}

\* The entities a server fills with its defaults on a create.
DefaultQueueEntities ==
    {e \in QueueEntities :
        /\ e.lock_duration = Timedelta(1) /\ e.max_delivery_count = PyInt(1)
        /\ e.duplicate_detection_history_time_window = Timedelta(1)
        /\ e.dead_lettering_on_message_expiration = PyBool(FALSE)
        /\ e.auto_delete_on_idle = Timedelta(1)}

DefaultTopicEntities ==
    {e \in TopicEntities :
        /\ e.duplicate_detection_history_time_window = Timedelta(1)
        /\ e.auto_delete_on_idle = Timedelta(1)}

\* Description objects a caller builds itself.
Named(cls, entities, names) ==
    {[_from_internal_entity(cls, e) EXCEPT !.name = n] : e \in entities, n \in names}

CallerQueues ==
    Named("QueueDescription", {e \in DefaultQueueEntities : e.name = None}, NameArgs)
CallerTopics ==
    Named("TopicDescription", {e \in DefaultTopicEntities : e.name = None}, NameArgs)
CallerSubscriptions ==
    Named("SubscriptionDescription",
          {e \in SubscriptionEntities : e.name = None /\ e.default_message_time_to_live # Timedelta(0)},
          NameArgs)
CallerRules ==
    Named("RuleDescription", {e \in RuleEntities : e.name = None}, NameArgs)

\* A parent given by name or by object.
TopicArgs == {Str("a")} \cup {t \in CallerTopics :
                 t.name = None /\ t.default_message_time_to_live = Timedelta(1)}
SubscriptionArgs == {Str("a")} \cup {x \in CallerSubscriptions :
                 x.name = Str("") /\ x.default_message_time_to_live = Timedelta(1)
                                  /\ x.auto_delete_on_idle = Timedelta(1)}

\* A description object given where the name of the entity is asked for.
QueueObjects ==
    {q \in CallerQueues : q.name = Str("a") /\ q.default_message_time_to_live = Timedelta(1)}
TopicObjects ==
    {t \in CallerTopics : t.name = Str("a") /\ t.default_message_time_to_live = Timedelta(1)}
SubscriptionObjects ==
    {x \in CallerSubscriptions :
        x.name = Str("a") /\ x.default_message_time_to_live = Timedelta(1)
                          /\ x.auto_delete_on_idle = Timedelta(1)}
RuleObjects == {r \in CallerRules : r.name = Str("a") /\ r.filter = Str("1=1")}

\* Responses to a get or a create: a failure, an entry without content, an
\* entry with content.
EntryResponses(entities) ==
    {Failed} \cup {Ok(Entry(t, None)) : t \in Titles}
             \cup {Ok(Entry(t, Content(e))) : t \in Titles, e \in entities}

\* Responses to an update or a delete: their element is not read.
PlainResponses == {Failed, Ok(None)}

\* The keyword arguments a caller may give: at most MaxOverrides of `keys`,
\* the value of key k among values[k].
KwargsOf(keys, values) ==
    UNION {{kw \in [S -> UNION {values[k] : k \in S}] : \A k \in S : kw[k] \in values[k]} :
              S \in {T \in SUBSET keys : Cardinality(T) <= MaxOverrides}}

QueueOverrideValues ==
    [k \in QueueFields |->
        CASE k = "default_message_time_to_live" -> TtlValues
          [] k = "lock_duration" -> {Timedelta(0), Timedelta(3)}
          [] k = "dead_lettering_on_message_expiration" -> BoolValues
          [] k = "duplicate_detection_history_time_window" -> {Timedelta(0), Timedelta(3)}
          [] k = "max_delivery_count" -> {PyInt(0), PyInt(3)}]

TopicOverrideValues ==
    [k \in TopicFields |->
        CASE k = "default_message_time_to_live" -> TtlValues
          [] k = "duplicate_detection_history_time_window" -> {Timedelta(0), Timedelta(3)}]


\* The keywords a caller may give to update_queue and update_topic: the
\* overrides, and a keyword that is a call option only.
OptionKeywords == {"timeout"}
OptionValues == {PyInt(5)}

QueueKeywords == QueueFields \cup OptionKeywords
QueueKeywordValues ==
    [k \in QueueKeywords |-> IF k \in OptionKeywords THEN OptionValues
                             ELSE QueueOverrideValues[k]]

TopicKeywords == TopicFields \cup OptionKeywords
TopicKeywordValues ==
    [k \in TopicKeywords |-> IF k \in OptionKeywords THEN OptionValues
                             ELSE TopicOverrideValues[k]]

(***************************************************************************)
(* Construction and lifecycle.                                             *)
(*                                                                         *)
(* Text that the client computes on (the endpoint of a connection string,  *)
(* the namespace host) is a sequence of characters.  The configuration,    *)
(* the pipeline, the transport and the generated client are modelled after *)
(* their description: the configuration holds the policies it is asked     *)
(* for, the pipeline holds its transport and its policies in order, and    *)
(* the transport is open until it is released.                             *)
(***************************************************************************)
ServiceBusSharedKeyCredential(policy, key) ==
    [type |-> "ServiceBusSharedKeyCredential", policy |-> policy, key |-> key]

\* Any credential that is not a shared-key credential.
TokenCredential(id) == [type |-> "TokenCredential", id |-> id]

JWT_TOKEN_SCOPE == "constants.JWT_TOKEN_SCOPE"

Policy(type) == [type |-> type]

ServiceBusManagementClientConfiguration(endpoint) ==
    [endpoint |-> endpoint,
     headers_policy |-> Policy("HeadersPolicy"),
     user_agent_policy |-> Policy("UserAgentPolicy"),
     proxy_policy |-> Policy("ProxyPolicy"),
     redirect_policy |-> Policy("RedirectPolicy"),
     retry_policy |-> Policy("RetryPolicy"),
     logging_policy |-> Policy("NetworkTraceLoggingPolicy")]

ServiceBusSharedKeyCredentialPolicy(endpoint, credential, name) ==
    [type |-> "ServiceBusSharedKeyCredentialPolicy", endpoint |-> endpoint,
     credential |-> credential, name |-> name]

BearerTokenCredentialPolicy(credential, scope) ==
    [type |-> "BearerTokenCredentialPolicy", credential |-> credential, scope |-> scope]

RequestsTransport == [type |-> "RequestsTransport", closed |-> FALSE]

Pipeline(transport, policies) == [transport |-> transport, policies |-> policies]

\* _build_pipeline as __init__ calls it: without keyword arguments, so the
\* policies are the default list and the transport is a RequestsTransport.
_build_pipeline_credential_before_retry(self) ==
    LET credential_policy ==
            IF self._credential.type = "ServiceBusSharedKeyCredential"
            THEN ServiceBusSharedKeyCredentialPolicy(self._endpoint, self._credential,
                                                     "Authorization")
            ELSE BearerTokenCredentialPolicy(self._credential, JWT_TOKEN_SCOPE)
        policies == <<Policy("RequestIdPolicy"),
                      self._config.headers_policy,
                      self._config.user_agent_policy,
                      self._config.proxy_policy,
                      Policy("ContentDecodePolicy"),
                      Policy("ServiceBusXMLWorkaroundPolicy"),
                      self._config.redirect_policy,
                      credential_policy,
                      self._config.retry_policy,
                      self._config.logging_policy,
                      Policy("DistributedTracingPolicy"),
                      Policy("HttpLoggingPolicy")>>
    IN Pipeline(RequestsTransport, policies)

_build_pipeline(self) ==
    LET credential_policy ==
            IF self._credential.type = "ServiceBusSharedKeyCredential"
            THEN ServiceBusSharedKeyCredentialPolicy(self._endpoint, self._credential,
                                                     "Authorization")
            ELSE BearerTokenCredentialPolicy(self._credential, JWT_TOKEN_SCOPE)
        policies == <<Policy("RequestIdPolicy"),
                      self._config.headers_policy,
                      self._config.user_agent_policy,
                      self._config.proxy_policy,
                      Policy("ContentDecodePolicy"),
                      Policy("ServiceBusXMLWorkaroundPolicy"),
                      self._config.redirect_policy,
                      self._config.retry_policy,
                      credential_policy,
                      self._config.logging_policy,
                      Policy("DistributedTracingPolicy"),
                      Policy("HttpLoggingPolicy")>>
    IN Pipeline(RequestsTransport, policies)

\* The generated client built on the pipeline.  It holds the very pipeline
\* object the client holds, which the model keeps once, at _pipeline.
ServiceBusManagementClientImpl(endpoint) ==
    [type |-> "ServiceBusManagementClientImpl", endpoint |-> endpoint]

HTTPS == <<"h", "t", "t", "p", "s", ":", "/", "/">>

__init__(fully_qualified_namespace, credential) ==
    LET _endpoint == HTTPS \o fully_qualified_namespace
        self == [fully_qualified_namespace |-> fully_qualified_namespace,
                 _credential |-> credential,
                 _endpoint |-> _endpoint,
                 _config |-> ServiceBusManagementClientConfiguration(_endpoint)]
    IN [type |-> "ServiceBusManagementClient",
        fully_qualified_namespace |-> self.fully_qualified_namespace,
        _credential |-> self._credential,
        _endpoint |-> self._endpoint,
        _config |-> self._config,
        _pipeline |-> _build_pipeline(self),
        _impl |-> ServiceBusManagementClientImpl(fully_qualified_namespace)]

\* A connection string is kept as the settings it is made of; parse_conn_str
\* gives the endpoint, the key name, the key and the entity path.
parse_conn_str(conn_str) ==
    <<conn_str.Endpoint, conn_str.SharedAccessKeyName, conn_str.SharedAccessKey,
      conn_str.EntityPath>>

\* `sub in s`, `s.index(sub)` (counted from 0, the lowest match) and `s[k:]`.
str_at(s, sub, i) ==
    /\ i >= 0 /\ i + Len(sub) <= Len(s)
    /\ SubSeq(s, i + 1, i + Len(sub)) = sub
str_contains(s, sub) == \E i \in 0..Len(s) : str_at(s, sub, i)
str_index(s, sub) ==
    CHOOSE i \in 0..Len(s) : str_at(s, sub, i) /\ \A j \in 0..(i - 1) : ~str_at(s, sub, j)
str_rindex(s, sub) ==
    CHOOSE i \in 0..Len(s) : str_at(s, sub, i) /\ \A j \in (i + 1)..Len(s) : ~str_at(s, sub, j)
str_from(s, k) == SubSeq(s, k + 1, Len(s))

SLASHES == <<"/", "/">>

from_connection_string_after_last_slashes(conn_str) ==
    LET parsed == parse_conn_str(conn_str)
        endpoint == IF str_contains(parsed[1], SLASHES)
                    THEN str_from(parsed[1], str_rindex(parsed[1], SLASHES) + 2)
                    ELSE parsed[1]
    IN __init__(endpoint, ServiceBusSharedKeyCredential(parsed[2], parsed[3]))

from_connection_string(conn_str) ==
    LET parsed == parse_conn_str(conn_str)
        endpoint == IF str_contains(parsed[1], SLASHES)
                    THEN str_from(parsed[1], str_index(parsed[1], SLASHES) + 2)
                    ELSE parsed[1]
    IN __init__(endpoint, ServiceBusSharedKeyCredential(parsed[2], parsed[3]))

\* The generated client passes enter, exit and close on to the pipeline it
\* was given: entering leaves it usable, leaving the block and closing
\* release its transport, whatever the exception details are.
Impl__enter__(pipeline) == pipeline
Impl__exit__(pipeline, exc_details) == [pipeline EXCEPT !.transport.closed = TRUE]
Impl_close(pipeline) == [pipeline EXCEPT !.transport.closed = TRUE]

__enter__(self) == [self EXCEPT !._pipeline = Impl__enter__(@)]

__exit___on_clean_exit_only(self, exc_details) ==
    IF exc_details = None THEN [self EXCEPT !._pipeline = Impl__exit__(@, exc_details)]
    ELSE self

__exit__(self, exc_details) == [self EXCEPT !._pipeline = Impl__exit__(@, exc_details)]

close(self) == [self EXCEPT !._pipeline = Impl_close(@)]

\* The client the calls of the model are made on.
DefaultClient == __init__(<<"n", "s">>, ServiceBusSharedKeyCredential("policy", "key"))


(***************************************************************************)
(* The state machine: one action per public operation.                     *)
(***************************************************************************)
NoPager == [op |-> "none"]
NoFeed == [pages |-> <<>>, fail_at |-> 0]

\* The last call did not repeat the call before it.
NoEarlier == [repeated |-> FALSE, requests |-> <<>>]

\* No call made yet, or the caller is done with the result of its last call.
NoCall == [op |-> "none", args |-> <<>>, kwargs |-> NoKwargs]
Idle == call = NoCall

Init ==
    /\ call = NoCall
    /\ response = NoResponse
    /\ requests = <<>>
    /\ outcome = Return(None)
    /\ fetched = None
    /\ feed = NoFeed
    /\ pager = NoPager
    /\ yielded = <<>>
    /\ client = DefaultClient
    /\ scoped = FALSE
    /\ earlier = NoEarlier

\* A public call that is not a listing: the handler ran to its end with
\* result `res`; `resp` answered its stub call, if it made one.
Do(op, args, kwargs, resp, res, origin) ==
    /\ call' = [op |-> op, args |-> args, kwargs |-> kwargs]
    /\ response' = IF res.requests = <<>> THEN NoResponse ELSE resp
    /\ requests' = res.requests
    /\ outcome' = res.outcome
    /\ fetched' = origin
    /\ earlier' = NoEarlier
    /\ UNCHANGED <<feed, pager, yielded, client, scoped>>

\* The wire entity the result of the last call was built from.
LastEntity == response.element.content.description

\* The last call was a successful `op`, so that its result can be passed on.
Returned(op) == call.op = op /\ outcome.kind = "return"

GetQueue ==
    /\ Idle
    /\ \E queue_name \in NameArgs \cup QueueObjects, resp \in EntryResponses(QueueEntities) :
        Do("get_queue", <<queue_name>>, NoKwargs, resp,
           get_queue(queue_name, NoKwargs, resp), None)

GetQueueRuntimeInfo ==
    /\ Idle
    /\ \E queue_name \in NameArgs \cup QueueObjects, resp \in EntryResponses(DefaultQueueEntities) :
        Do("get_queue_runtime_info", <<queue_name>>, NoKwargs, resp,
           get_queue_runtime_info(queue_name, NoKwargs, resp), None)

CreateQueue ==
    /\ Idle
    /\ \E queue \in NameArgs \cup CallerQueues, resp \in EntryResponses(DefaultQueueEntities) :
        Do("create_queue", <<queue>>, NoKwargs, resp,
           create_queue(queue, NoKwargs, resp), None)

\* Arguments of the wrong type for update_queue.
NotQueues == NameArgs \cup TopicArgs \cup DefaultQueueEntities

UpdateQueue ==
    \E kwargs \in KwargsOf(QueueKeywords, QueueKeywordValues), resp \in PlainResponses :
        \/ /\ Idle
           /\ \E queue_description \in CallerQueues \cup NotQueues :
              Do("update_queue", <<queue_description>>, kwargs, resp,
                 update_queue(queue_description, kwargs, resp), None)
        \/ /\ Returned("get_queue")
           /\ Do("update_queue", <<outcome.value>>, kwargs, resp,
                 update_queue(outcome.value, kwargs, resp), LastEntity)

DeleteQueue ==
    /\ Idle
    /\ \E queue \in NameArgs \cup CallerQueues, resp \in PlainResponses :
        Do("delete_queue", <<queue>>, NoKwargs, resp,
           delete_queue(queue, NoKwargs, resp), None)

GetTopic ==
    /\ Idle
    /\ \E topic_name \in NameArgs \cup TopicObjects, resp \in EntryResponses(TopicEntities) :
        Do("get_topic", <<topic_name>>, NoKwargs, resp,
           get_topic(topic_name, NoKwargs, resp), None)

GetTopicRuntimeInfo ==
    /\ Idle
    /\ \E topic_name \in NameArgs \cup TopicObjects, resp \in EntryResponses(DefaultTopicEntities) :
        Do("get_topic_runtime_info", <<topic_name>>, NoKwargs, resp,
           get_topic_runtime_info(topic_name, NoKwargs, resp), None)

CreateTopic ==
    /\ Idle
    /\ \E topic \in NameArgs \cup CallerTopics, resp \in EntryResponses(DefaultTopicEntities) :
        Do("create_topic", <<topic>>, NoKwargs, resp,
           create_topic(topic, NoKwargs, resp), None)

NotTopics == NameArgs \cup SubscriptionArgs \cup DefaultTopicEntities

UpdateTopic ==
    \E kwargs \in KwargsOf(TopicKeywords, TopicKeywordValues), resp \in PlainResponses :
        \/ /\ Idle
           /\ \E topic_description \in CallerTopics \cup NotTopics :
              Do("update_topic", <<topic_description>>, kwargs, resp,
                 update_topic(topic_description, kwargs, resp), None)
        \/ /\ Returned("get_topic")
           /\ Do("update_topic", <<outcome.value>>, kwargs, resp,
                 update_topic(outcome.value, kwargs, resp), LastEntity)

DeleteTopic ==
    /\ Idle
    /\ \E topic \in NameArgs \cup CallerTopics, resp \in PlainResponses :
        Do("delete_topic", <<topic>>, NoKwargs, resp,
           delete_topic(topic, NoKwargs, resp), None)

GetSubscription ==
    /\ Idle
    /\ \E topic \in TopicArgs, subscription_name \in NameArgs \cup SubscriptionObjects,
       resp \in EntryResponses(SubscriptionEntities) :
        Do("get_subscription", <<topic, subscription_name>>, NoKwargs, resp,
           get_subscription(topic, subscription_name, NoKwargs, resp), None)

GetSubscriptionRuntimeInfo ==
    /\ Idle
    /\ \E topic \in TopicArgs, subscription_name \in NameArgs \cup SubscriptionObjects,
       resp \in EntryResponses(SubscriptionEntities) :
        Do("get_subscription_runtime_info", <<topic, subscription_name>>, NoKwargs, resp,
           get_subscription_runtime_info(topic, subscription_name, NoKwargs, resp), None)

CreateSubscription ==
    /\ Idle
    /\ \E topic \in TopicArgs, subscription \in NameArgs \cup CallerSubscriptions,
       resp \in EntryResponses(SubscriptionEntities) :
        Do("create_subscription", <<topic, subscription>>, NoKwargs, resp,
           create_subscription(topic, subscription, NoKwargs, resp), None)

NotSubscriptions == NameArgs \cup TopicArgs \cup SubscriptionEntities

UpdateSubscription ==
    \E topic \in TopicArgs, resp \in PlainResponses :
        \/ /\ Idle
           /\ \E subscription_description \in CallerSubscriptions \cup NotSubscriptions :
              Do("update_subscription", <<topic, subscription_description>>, NoKwargs, resp,
                 update_subscription(topic, subscription_description, NoKwargs, resp), None)
        \/ /\ Returned("get_subscription")
           /\ Do("update_subscription", <<topic, outcome.value>>, NoKwargs, resp,
                 update_subscription(topic, outcome.value, NoKwargs, resp), LastEntity)

DeleteSubscription ==
    /\ Idle
    /\ \E topic \in TopicArgs, subscription \in NameArgs \cup CallerSubscriptions,
       resp \in PlainResponses :
        Do("delete_subscription", <<topic, subscription>>, NoKwargs, resp,
           delete_subscription(topic, subscription, NoKwargs, resp), None)

GetRule ==
    /\ Idle
    /\ \E topic \in TopicArgs, subscription \in SubscriptionArgs, rule_name \in NameArgs \cup RuleObjects,
       resp \in EntryResponses(RuleEntities) :
        Do("get_rule", <<topic, subscription, rule_name>>, NoKwargs, resp,
           get_rule(topic, subscription, rule_name, NoKwargs, resp), None)

CreateRule ==
    /\ Idle
    /\ \E topic \in TopicArgs, subscription \in SubscriptionArgs,
       rule \in NameArgs \cup CallerRules, resp \in EntryResponses(RuleEntities) :
        Do("create_rule", <<topic, subscription, rule>>, NoKwargs, resp,
           create_rule(topic, subscription, rule, NoKwargs, resp), None)

NotRules == NameArgs \cup SubscriptionArgs \cup RuleEntities

UpdateRule ==
    \E topic \in TopicArgs, subscription \in SubscriptionArgs, resp \in PlainResponses :
        \/ /\ Idle
           /\ \E rule_description \in CallerRules \cup NotRules :
              Do("update_rule", <<topic, subscription, rule_description>>, NoKwargs, resp,
                 update_rule(topic, subscription, rule_description, NoKwargs, resp), None)
        \/ /\ Returned("get_rule")
           /\ Do("update_rule", <<topic, subscription, outcome.value>>, NoKwargs, resp,
                 update_rule(topic, subscription, outcome.value, NoKwargs, resp), LastEntity)

DeleteRule ==
    /\ Idle
    /\ \E topic \in TopicArgs, subscription \in SubscriptionArgs,
       rule \in NameArgs \cup CallerRules, resp \in PlainResponses :
        Do("delete_rule", <<topic, subscription, rule>>, NoKwargs, resp,
           delete_rule(topic, subscription, rule, NoKwargs, resp), None)

\* The namespace entry: its content holds the namespace properties.
NamespaceEntries ==
    {Entry(Str(""), Content([type |-> "NamespaceProperties", name |-> n])) : n \in Titles}

\* get_namespace_properties releasing the pipeline once it has its answer.
GetNamespacePropertiesReleasing ==
    /\ Idle
    /\ \E resp \in {Failed} \cup {Ok(e) : e \in NamespaceEntries} :
        LET res == get_namespace_properties(NoKwargs, resp) IN
        /\ call' = [op |-> "get_namespace_properties", args |-> <<>>, kwargs |-> NoKwargs]
        /\ response' = resp
        /\ requests' = res.requests
        /\ outcome' = res.outcome
        /\ client' = close(client)
        /\ fetched' = None
        /\ earlier' = NoEarlier
        /\ UNCHANGED <<feed, pager, yielded, scoped>>

GetNamespaceProperties ==
    /\ Idle
    /\ \E resp \in {Failed} \cup {Ok(e) : e \in NamespaceEntries} :
        Do("get_namespace_properties", <<>>, NoKwargs, resp,
           get_namespace_properties(NoKwargs, resp), None)

\* The caller is done with the result of its last call and may make the next.
CallerProceeds ==
    /\ ~Idle
    /\ call' = NoCall
    /\ response' = NoResponse
    /\ requests' = <<>>
    /\ outcome' = Return(None)
    /\ fetched' = None
    /\ feed' = NoFeed
    /\ pager' = NoPager
    /\ yielded' = <<>>
    /\ earlier' = NoEarlier
    /\ UNCHANGED <<client, scoped>>

Next ==
    \/ CallerProceeds
    \/ GetQueue \/ GetQueueRuntimeInfo \/ CreateQueue \/ UpdateQueue \/ DeleteQueue
    \/ GetTopic \/ GetTopicRuntimeInfo \/ CreateTopic \/ UpdateTopic \/ DeleteTopic
    \/ GetSubscription \/ GetSubscriptionRuntimeInfo \/ CreateSubscription
    \/ UpdateSubscription \/ DeleteSubscription
    \/ GetRule \/ CreateRule \/ UpdateRule \/ DeleteRule
    \/ GetNamespaceProperties

Spec == Init /\ [][Next]_vars


(***************************************************************************)
(* Paged listings.                                                         *)
(*                                                                         *)
(* list_X builds the two callbacks of the page cursor and returns the      *)
(* sequence; the cursor (ItemPaged) and the callback templates             *)
(* (get_next_template, extract_data_template) are modelled after their     *)
(* description: the state of the sequence is the buffered items of the     *)
(* current page and the continuation token, advancing past the buffer      *)
(* fetches the next page with the token, and the sequence ends with a      *)
(* page that has no token.                                                 *)
(***************************************************************************)
ENTITY_TYPE_QUEUES == "constants.ENTITY_TYPE_QUEUES"
ENTITY_TYPE_TOPICS == "constants.ENTITY_TYPE_TOPICS"

\* The entry converters of the list operations.
entry_to_qd(entry) ==
    [_from_internal_entity("QueueDescription", entry.content.description)
        EXCEPT !.name = entry.title]

entry_to_qr(entry) ==
    [_from_internal_entity("QueueRuntimeInfo", entry.content.description)
        EXCEPT !.name = entry.title]

entry_to_topic(entry) ==
    [_from_internal_entity("TopicDescription", entry.content.description)
        EXCEPT !.name = entry.title]

entry_to_topic_runtime_info(entry) ==
    [_from_internal_entity("TopicRuntimeInfo", entry.content.description)
        EXCEPT !.name = entry.title]

\* entry_to_subscription leaving the name as the content has it.
entry_to_subscription_content_name(entry) ==
    _from_internal_entity("SubscriptionDescription", entry.content.description)

entry_to_subscription(entry) ==
    [_from_internal_entity("SubscriptionDescription", entry.content.description)
        EXCEPT !.name = entry.title]

entry_to_subscription_runtime_info(entry) ==
    [_from_internal_entity("SubscriptionRuntimeInfo", entry.content.description)
        EXCEPT !.name = entry.title]

entry_to_rule(entry) ==
    _from_internal_entity("RuleDescription", entry.content.description)

\* The converter that list operation `op` hands to extract_data_template.
Convert(op, entry) ==
    CASE op = "list_queues" -> entry_to_qd(entry)
      [] op = "list_queues_runtime_info" -> entry_to_qr(entry)
      [] op = "list_topics" -> entry_to_topic(entry)
      [] op = "list_topics_runtime_info" -> entry_to_topic_runtime_info(entry)
      [] op = "list_subscriptions" -> entry_to_subscription(entry)
      [] op = "list_subscriptions_runtime_info" -> entry_to_subscription_runtime_info(entry)
      [] op = "list_rules" -> entry_to_rule(entry)

\* ItemPaged(get_next, extract_data): the sequence as constructed, before
\* any page was asked for.  `stub` and `path` are the list stub and the
\* arguments bound to it in get_next.
ItemPaged(op, stub, path, kwargs) ==
    [op |-> op, stub |-> stub, path |-> path, kwargs |-> kwargs,
     continuation_token |-> None, did_a_call_already |-> FALSE,
     current_page |-> <<>>, status |-> "open"]

\* get_next_template: the page request for continuation token `next_link`,
\* made inside the error boundary.
get_next_template(pg, next_link) ==
    [Request(pg.stub, "get", pg.path, None, None, TRUE, pg.kwargs)
        EXCEPT !.options = [next_link |-> next_link, kwargs |-> pg.kwargs]]

\* list_queues asking for the first page itself, before it returns.
list_queues_eager(kwargs) ==
    LET pg == ItemPaged("list_queues", "list_entities", <<ENTITY_TYPE_QUEUES>>, kwargs)
    IN Result(<<get_next_template(pg, None)>>, Return(pg))

list_queues(kwargs) ==
    Result(<<>>, Return(ItemPaged("list_queues", "list_entities",
                                  <<ENTITY_TYPE_QUEUES>>, kwargs)))

list_queues_runtime_info(kwargs) ==
    Result(<<>>, Return(ItemPaged("list_queues_runtime_info", "list_entities",
                                  <<ENTITY_TYPE_QUEUES>>, kwargs)))

list_topics(kwargs) ==
    Result(<<>>, Return(ItemPaged("list_topics", "list_entities",
                                  <<ENTITY_TYPE_TOPICS>>, kwargs)))

list_topics_runtime_info(kwargs) ==
    Result(<<>>, Return(ItemPaged("list_topics_runtime_info", "list_entities",
                                  <<ENTITY_TYPE_TOPICS>>, kwargs)))

\* list_subscriptions asking for the first page itself, before it returns.
list_subscriptions_eager(topic, kwargs) ==
    LET topic_name == ResolveName(topic)
        pg == ItemPaged("list_subscriptions", "list_subscriptions", <<topic_name>>, kwargs)
    IN Result(<<get_next_template(pg, None)>>, Return(pg))

list_subscriptions(topic, kwargs) ==
    LET topic_name == ResolveName(topic) IN
    Result(<<>>, Return(ItemPaged("list_subscriptions", "list_subscriptions",
                                  <<topic_name>>, kwargs)))

list_subscriptions_runtime_info(topic, kwargs) ==
    LET topic_name == ResolveName(topic) IN
    Result(<<>>, Return(ItemPaged("list_subscriptions_runtime_info", "list_subscriptions",
                                  <<topic_name>>, kwargs)))

list_rules(topic, subscription, kwargs) ==
    LET topic_name == ResolveName(topic)
        subscription_name == ResolveName(subscription)
    IN Result(<<>>, Return(ItemPaged("list_rules", "list_rules",
                                     <<topic_name, subscription_name>>, kwargs)))

\* map(convert, entries)
RECURSIVE MapConvert(_, _)
MapConvert(op, entries) ==
    IF entries = <<>> THEN <<>>
    ELSE <<Convert(op, Head(entries))>> \o MapConvert(op, Tail(entries))

\* extract_data_template: the token of the next page, if the feed has one,
\* and the converted entries of this page.
extract_data_template(op, feed_element) ==
    [next_link |-> feed_element.next_link,
     items |-> MapConvert(op, feed_element.entry)]

\* The page of `server` that answers the request for `token`: the first
\* page for no token, else the page the token points to.
PageIndex(token) == IF token = None THEN 1 ELSE token.val

\* next() on the sequence: the next buffered item; with an empty buffer the
\* next page is fetched first (and again, if that page is empty); the end
\* once a fetched page carried no token.
RECURSIVE ItemPaged_next(_, _, _)
ItemPaged_next(pg, reqs, server) ==
    IF pg.current_page # <<>>
    THEN [pager |-> [pg EXCEPT !.current_page = Tail(pg.current_page)],
          requests |-> reqs, outcome |-> Return(Head(pg.current_page))]
    ELSE IF pg.continuation_token = None /\ pg.did_a_call_already
    THEN [pager |-> [pg EXCEPT !.status = "exhausted"], requests |-> reqs,
          outcome |-> Raise(Exc("StopIteration", "End of paging", <<>>))]
    ELSE LET req == get_next_template(pg, pg.continuation_token)
             k == PageIndex(pg.continuation_token)
         IN IF server.fail_at = k
            THEN [pager |-> [pg EXCEPT !.status = "failed"],
                  requests |-> Append(reqs, req), outcome |-> StubFailure(req)]
            ELSE LET page == extract_data_template(pg.op, server.pages[k])
                 IN ItemPaged_next(
                        [pg EXCEPT !.continuation_token = page.next_link,
                                   !.did_a_call_already = TRUE,
                                   !.current_page = page.items],
                        Append(reqs, req), server)


(***************************************************************************)
(* The server of a listing: the pages it serves, chained by continuation   *)
(* tokens, and the page request it fails on (0: none).  The entries of a   *)
(* feed have distinct titles, numbered in feed order; the name inside      *)
(* their content is either a name of its own or, with `echo`, the title.   *)
(***************************************************************************)
ListOps ==
    {"list_queues", "list_queues_runtime_info", "list_topics",
     "list_topics_runtime_info", "list_subscriptions",
     "list_subscriptions_runtime_info", "list_rules"}

\* The wire entity of a feed entry of listing `op`, carrying name `n`.
FeedEntity(op, n) ==
    CASE op \in {"list_queues", "list_queues_runtime_info"} ->
            InternalQueueDescription(n, Timedelta(1), Timedelta(1), PyBool(FALSE),
                                     Timedelta(1), PyInt(1), Timedelta(1))
      [] op \in {"list_topics", "list_topics_runtime_info"} ->
            InternalTopicDescription(n, Timedelta(1), Timedelta(1), Timedelta(1))
      [] op \in {"list_subscriptions", "list_subscriptions_runtime_info"} ->
            InternalSubscriptionDescription(n, Timedelta(1), Timedelta(1))
      [] op = "list_rules" -> InternalRuleDescription(n, Str("1=1"))

RECURSIVE Sum(_)
Sum(lens) == IF lens = <<>> THEN 0 ELSE Head(lens) + Sum(Tail(lens))

\* The first k elements of a sequence.
Prefix(seq, k) == SubSeq(seq, 1, k)

FeedEntry(op, i, echo) ==
    LET title == Str(ToString(i)) IN
    Entry(title, Content(FeedEntity(op, IF echo THEN title ELSE Str("content-name"))))

\* The feed element of page k of a feed whose pages have lengths `lens`.
FeedElement(op, lens, k, echo) ==
    [entry |-> [i \in 1..lens[k] |-> FeedEntry(op, Sum(Prefix(lens, k - 1)) + i, echo)],
     next_link |-> IF k < Len(lens) THEN PyInt(k + 1) ELSE None]

Servers(op) ==
    {[pages |-> [k \in 1..Len(lens) |-> FeedElement(op, lens, k, echo)], fail_at |-> f] :
        lens \in UNION {[1..n -> 0..MaxPageLen] : n \in 1..MaxPages},
        echo \in BOOLEAN, f \in 0..MaxPages}

\* All entries of a feed, in page order and entry order.
RECURSIVE AllEntries(_)
AllEntries(pages) ==
    IF pages = <<>> THEN <<>> ELSE Head(pages).entry \o AllEntries(Tail(pages))

(***************************************************************************)
(* Listing actions: the list_X call, and the consumer taking the next item.*)
(***************************************************************************)
StartList(op, args, res, server) ==
    /\ call' = [op |-> op, args |-> args, kwargs |-> NoKwargs]
    /\ response' = NoResponse
    /\ requests' = res.requests
    /\ outcome' = res.outcome
    /\ fetched' = None
    /\ feed' = server
    /\ pager' = res.outcome.value
    /\ yielded' = <<>>
    /\ UNCHANGED <<client, scoped, earlier>>

ListQueues ==
    /\ Idle
    /\ \E server \in Servers("list_queues") :
          StartList("list_queues", <<>>, list_queues(NoKwargs), server)

ListQueuesRuntimeInfo ==
    /\ Idle
    /\ \E server \in Servers("list_queues_runtime_info") :
          StartList("list_queues_runtime_info", <<>>,
                    list_queues_runtime_info(NoKwargs), server)

ListTopics ==
    /\ Idle
    /\ \E server \in Servers("list_topics") :
          StartList("list_topics", <<>>, list_topics(NoKwargs), server)

ListTopicsRuntimeInfo ==
    /\ Idle
    /\ \E server \in Servers("list_topics_runtime_info") :
          StartList("list_topics_runtime_info", <<>>,
                    list_topics_runtime_info(NoKwargs), server)

ListSubscriptions ==
    /\ Idle
    /\ \E topic \in TopicArgs, server \in Servers("list_subscriptions") :
          StartList("list_subscriptions", <<topic>>,
                    list_subscriptions(topic, NoKwargs), server)

ListSubscriptionsRuntimeInfo ==
    /\ Idle
    /\ \E topic \in TopicArgs, server \in Servers("list_subscriptions_runtime_info") :
          StartList("list_subscriptions_runtime_info", <<topic>>,
                    list_subscriptions_runtime_info(topic, NoKwargs), server)

ListRules ==
    /\ Idle
    /\ \E topic \in TopicArgs, subscription \in SubscriptionArgs,
          server \in Servers("list_rules") :
          StartList("list_rules", <<topic, subscription>>,
                    list_rules(topic, subscription, NoKwargs), server)

\* The consumer asks the sequence for its next item.
Advance ==
    /\ pager # NoPager
    /\ pager.status = "open"
    /\ LET r == ItemPaged_next(pager, requests, feed) IN
          /\ pager' = r.pager
          /\ requests' = r.requests
          /\ outcome' = r.outcome
          /\ yielded' = IF r.outcome.kind = "return"
                        THEN Append(yielded, r.outcome.value) ELSE yielded
    /\ UNCHANGED <<call, response, fetched, feed, client, scoped, earlier>>

NextList ==
    \/ CallerProceeds
    \/ ListQueues \/ ListQueuesRuntimeInfo \/ ListTopics \/ ListTopicsRuntimeInfo
    \/ ListSubscriptions \/ ListSubscriptionsRuntimeInfo \/ ListRules
    \/ Advance

ListSpec == Init /\ [][NextList]_vars


(***************************************************************************)
(* The lifecycle of the client, and the specification of all operations.   *)
(***************************************************************************)
\* A lifecycle call: it makes no request to the stub layer.
Lifecycle(op, args, out) ==
    /\ call' = [op |-> op, args |-> args, kwargs |-> NoKwargs]
    /\ response' = NoResponse
    /\ requests' = <<>>
    /\ outcome' = out
    /\ fetched' = None
    /\ feed' = NoFeed
    /\ pager' = NoPager
    /\ yielded' = <<>>
    /\ earlier' = NoEarlier

\* `with client:` is entered on a client that has not been released.
Enter ==
    /\ Idle
    /\ ~scoped
    /\ ~client._pipeline.transport.closed
    /\ client' = __enter__(client)
    /\ scoped' = TRUE
    /\ Lifecycle("__enter__", <<>>, Return(client'))

\* The block is left: at its end, or by an error that a call or an
\* iteration step inside it raised.  __exit__ returns nothing, so the
\* error goes on to the caller of the block.
ExitBlock ==
    /\ scoped
    /\ Idle \/ outcome.kind = "raise"
    /\ LET exc_details == IF outcome.kind = "raise" THEN outcome.exc ELSE None IN
          /\ client' = __exit__(client, exc_details)
          /\ Lifecycle("__exit__", <<exc_details>>,
                       IF exc_details = None THEN Return(None) ELSE Raise(exc_details))
    /\ scoped' = FALSE

Close ==
    /\ Idle
    /\ client' = close(client)
    /\ Lifecycle("close", <<>>, Return(None))
    /\ UNCHANGED scoped

\* The caller makes the get it has just made once more, with the same
\* arguments; the server fails, has no such entity, or has one.
GetAgain(op, args, resp) ==
    CASE op = "get_queue" -> get_queue(args[1], NoKwargs, resp)
      [] op = "get_topic" -> get_topic(args[1], NoKwargs, resp)
      [] op = "get_subscription" -> get_subscription(args[1], args[2], NoKwargs, resp)
      [] op = "get_rule" -> get_rule(args[1], args[2], args[3], NoKwargs, resp)

RepeatEntity(op) ==
    CASE op = "get_queue" ->
             InternalQueueDescription(None, Timedelta(1), Timedelta(1), PyBool(FALSE),
                                      Timedelta(1), PyInt(1), Timedelta(1))
      [] op = "get_topic" ->
             InternalTopicDescription(None, Timedelta(1), Timedelta(1), Timedelta(1))
      [] op = "get_subscription" ->
             InternalSubscriptionDescription(None, Timedelta(1), Timedelta(1))
      [] op = "get_rule" -> InternalRuleDescription(None, Str("1=1"))

RepeatResponses(op) ==
    {Failed, Ok(Entry(Str("a"), None)), Ok(Entry(Str("a"), Content(RepeatEntity(op))))}

RepeatGet ==
    /\ call.op \in {"get_queue", "get_topic", "get_subscription", "get_rule"}
    /\ ~earlier.repeated
    /\ \E resp \in RepeatResponses(call.op) :
        LET res == GetAgain(call.op, call.args, resp) IN
        /\ response' = IF res.requests = <<>> THEN NoResponse ELSE resp
        /\ requests' = res.requests
        /\ outcome' = res.outcome
        /\ earlier' = [repeated |-> TRUE, requests |-> requests]
        /\ fetched' = None
    /\ UNCHANGED <<call, feed, pager, yielded, client, scoped>>

NextClient ==
    \/ Next
    \/ NextList
    \/ Enter \/ ExitBlock \/ Close
    \/ RepeatGet

ClientSpec == Init /\ [][NextClient]_vars


(***************************************************************************)
(* Construction: the specification of the two ways to build a client.      *)
(***************************************************************************)
\* The longest endpoint text a connection string carries.
MaxEndpointLen == 4

EndpointChars == {"s", "/", "h"}
Texts == UNION {[1..n -> EndpointChars] : n \in 0..MaxEndpointLen}

KeyNames == {"policy", "other"}
Credentials ==
    {ServiceBusSharedKeyCredential(n, "key") : n \in KeyNames} \cup {TokenCredential("token")}

ConnectionStrings ==
    {[Endpoint |-> e, SharedAccessKeyName |-> n, SharedAccessKey |-> "key",
      EntityPath |-> None] : e \in Texts, n \in KeyNames}

NoClient == [type |-> "none"]

InitBuild ==
    /\ call = NoCall
    /\ response = NoResponse
    /\ requests = <<>>
    /\ outcome = Return(None)
    /\ fetched = None
    /\ feed = NoFeed
    /\ pager = NoPager
    /\ yielded = <<>>
    /\ client = NoClient
    /\ scoped = FALSE
    /\ earlier = NoEarlier

Construct ==
    /\ client = NoClient
    /\ \E fully_qualified_namespace \in Texts, credential \in Credentials :
          /\ client' = __init__(fully_qualified_namespace, credential)
          /\ Lifecycle("__init__", <<fully_qualified_namespace, credential>>, Return(None))
    /\ UNCHANGED scoped

FromConnectionString ==
    /\ client = NoClient
    /\ \E conn_str \in ConnectionStrings :
          /\ client' = from_connection_string(conn_str)
          /\ Lifecycle("from_connection_string", <<conn_str>>, Return(client'))
    /\ UNCHANGED scoped

\* The caller drops the client it built.
Discard ==
    /\ client # NoClient
    /\ client' = NoClient
    /\ Lifecycle("none", <<>>, Return(None))
    /\ UNCHANGED scoped

NextBuild == Construct \/ FromConnectionString \/ Discard

BuildSpec == InitBuild /\ [][NextBuild]_vars


(***************************************************************************)
(* Properties.                                                             *)
(***************************************************************************)
GetOps == {"get_queue", "get_topic", "get_subscription", "get_rule"}
CreateOps == {"create_queue", "create_topic", "create_subscription", "create_rule"}
UpdateOps == {"update_queue", "update_topic", "update_subscription", "update_rule"}
DeleteOps == {"delete_queue", "delete_topic", "delete_subscription", "delete_rule"}

\* The last positional argument of the last call: the leaf name of a get,
\* the name or description of a create, update or delete.
LeafArg == call.args[Len(call.args)]

\* The domain description type update operation `op` asks for.
DescriptionType(op) ==
    CASE op = "update_queue" -> "QueueDescription"
      [] op = "update_topic" -> "TopicDescription"
      [] op = "update_subscription" -> "SubscriptionDescription"
      [] op = "update_rule" -> "RuleDescription"

\* The stub answered the last call with an entry that has no content.
EmptyContent == response.status = "ok" /\ response.element.content = None

\* C1: a get_X (queue, topic, subscription, rule) whose fetched entry has
\* empty content raises ResourceNotFoundError, the error names the requested
\* resource, and no domain object is returned.
C1_GetMissingRaisesNotFound ==
    (call.op \in GetOps /\ EmptyContent) =>
        /\ outcome.kind = "raise"
        /\ outcome.exc.type = "ResourceNotFoundError"
        /\ \E i \in DOMAIN outcome.exc.args : outcome.exc.args[i] = LeafArg

C1_Witness ==
    /\ call.op = "get_rule" /\ EmptyContent
    /\ LeafArg = Str("a")
    /\ outcome.kind = "raise"

\* C2: a create_X (queue, topic, subscription, rule) called with only a name
\* and answered with an entry that has content returns an object whose name
\* is that name, whatever name the content carries.
C2_CreateByNameReturnsThatName ==
    (/\ call.op \in CreateOps
     /\ LeafArg.type = "str"
     /\ response.status = "ok"
     /\ response.element.content # None) =>
        /\ outcome.kind = "return"
        /\ outcome.value.name = LeafArg

DeletedQueueName ==
    IF LeafArg.type = "QueueDescription" THEN LeafArg.name ELSE LeafArg

\* C4: delete_queue with an empty or None name, given directly or as the
\* name of a queue object, raises an error and issues no DELETE request.
C4_DeleteQueueEmptyName ==
    (call.op = "delete_queue" /\ DeletedQueueName \in {Str(""), None}) =>
        /\ outcome.kind = "raise"
        /\ outcome.exc.type = "ValueError"
        /\ requests = <<>>

C4_Witness ==
    /\ call.op = "delete_queue"
    /\ LeafArg.type = "QueueDescription"
    /\ LeafArg.name = Str("")
    /\ outcome.kind = "raise"


(***************************************************************************)
(* Properties of the paged listings (ListSpec).                            *)
(***************************************************************************)
\* The pages the server serves for the current listing, their lengths, and
\* the number of entries in the first k pages.
PageLens == [k \in 1..Len(feed.pages) |-> Len(feed.pages[k].entry)]
EntriesUpTo(k) == Sum(Prefix(PageLens, k))

\* The name that identifies the i-th yielded object with its feed entry:
\* the entry's title, and for list_rules the name inside the content.
EntryKey(entry) ==
    IF call.op = "list_rules" THEN entry.content.description.name ELSE entry.title

\* The requests of a listing are the page requests 1, 2, ..., each carrying
\* the token the page before it gave.
ChainedRequests ==
    \A k \in 1..Len(requests) :
        /\ requests[k].method = "get"
        /\ requests[k].options.next_link = IF k = 1 THEN None ELSE PyInt(k)

\* C5: on a server that serves N pages chained by tokens, a fully iterated
\* list_X sequence has made exactly N page requests and has yielded every
\* entry of every page in page order and entry order; as long as the
\* consumer has taken nothing no page was requested, and when the last item
\* it took lies in page k, exactly k pages have been requested.
C5_PagesInOrderNoReadAhead ==
    (call.op \in ListOps) =>
        /\ ChainedRequests
        /\ pager.status = "exhausted" =>
              /\ Len(requests) = Len(feed.pages)
              /\ Len(yielded) = Len(AllEntries(feed.pages))
              /\ \A i \in 1..Len(yielded) :
                    yielded[i].name = EntryKey(AllEntries(feed.pages)[i])
        /\ (pager.status = "open" /\ yielded = <<>>) => requests = <<>>
        /\ (pager.status = "open" /\ yielded # <<>>) =>
              /\ Len(requests) \in 1..Len(feed.pages)
              /\ EntriesUpTo(Len(requests) - 1) < Len(yielded)
              /\ Len(yielded) <= EntriesUpTo(Len(requests))

C5_Witness ==
    /\ call.op = "list_rules"
    /\ pager.status = "exhausted"
    /\ Len(feed.pages) = MaxPages
    /\ Len(requests) = MaxPages
    /\ Len(yielded) = MaxPages * MaxPageLen

\* C7: every object yielded by list_queues, list_queues_runtime_info,
\* list_topics, list_topics_runtime_info, list_subscriptions and
\* list_subscriptions_runtime_info has the title of the feed entry it was
\* built from as its name, also when the content carries another name.
C7_ListedNameIsEntryTitle ==
    (call.op \in ListOps \ {"list_rules"}) =>
        /\ Len(yielded) <= Len(AllEntries(feed.pages))
        /\ \A i \in 1..Len(yielded) :
              yielded[i].name = AllEntries(feed.pages)[i].title

C7_Witness ==
    /\ call.op = "list_subscriptions"
    /\ Len(yielded) = 2
    /\ AllEntries(feed.pages)[2].content.description.name # AllEntries(feed.pages)[2].title
    /\ yielded[2].name = AllEntries(feed.pages)[2].title

(***************************************************************************)
(* Properties of the updates (Spec).                                       *)
(***************************************************************************)
\* The allow-listed fields of update_queue and update_topic.
AllowListed(op) == IF op = "update_queue" THEN QueueFields ELSE TopicFields

\* The wire entity in the body of the PUT of the last call.
SentEntity == requests[1].body.description

\* The last call is an update_queue or update_topic that sent its PUT.
OverlayUpdateSent == call.op \in {"update_queue", "update_topic"} /\ requests # <<>>

\* The last call is such an update, of an object passed on unchanged from a
\* get_X, with no keyword overrides.
RoundTrip == OverlayUpdateSent /\ fetched # None /\ call.kwargs = NoKwargs

\* C6 as stated: in a round trip every allow-listed field of the wire body
\* equals the value that was fetched.
C6_RoundTripSendsFetchedValues ==
    RoundTrip => \A f \in AllowListed(call.op) : SentEntity[f] = fetched[f]

\* The duration the wire body carries for duration `td`: `td`, or the limit
\* when `td` is above it.
Clamped(td) == IF td.type = "timedelta" /\ td.val > TD_LIMIT THEN Timedelta(TD_LIMIT) ELSE td

\* C6, amended: in a round trip every allow-listed field of the wire body
\* equals the value that was fetched, except that a fetched TTL above the
\* duration limit is sent clamped to the limit.
C6_RoundTripSendsFetchedValuesClamped ==
    RoundTrip =>
        \A f \in AllowListed(call.op) :
            SentEntity[f] = IF f = "default_message_time_to_live"
                            THEN Clamped(fetched[f]) ELSE fetched[f]

C6_Witness ==
    /\ RoundTrip
    /\ call.op = "update_queue"
    /\ fetched.default_message_time_to_live = Timedelta(TD_LIMIT + 1)
    /\ SentEntity.default_message_time_to_live = Timedelta(TD_LIMIT)
    /\ SentEntity.lock_duration = Timedelta(2)

\* The value the overlay of the last update is to give field f: the keyword
\* override when one was given, else the object's current value.
OverlayValue(f) == IF f \in DOMAIN call.kwargs THEN call.kwargs[f] ELSE LeafArg[f]

\* C9: in update_queue and update_topic every allow-listed field of the wire
\* body carries the keyword override when one is given and the object's
\* current value otherwise (the TTL as clamped for the wire), for every
\* override value, False, 0 and a zero duration included.
C9_OverrideTakesPrecedence ==
    OverlayUpdateSent =>
        \A f \in AllowListed(call.op) :
            SentEntity[f] = IF f = "default_message_time_to_live"
                            THEN Clamped(OverlayValue(f)) ELSE OverlayValue(f)

SingleCallOps == GetOps \cup CreateOps \cup UpdateOps \cup DeleteOps
                    \cup {"get_namespace_properties"}

\* C8: a failure of the stub call of a get, create, update or delete of any
\* entity kind, or of get_namespace_properties, reaches the caller as the
\* normalized service error, never as the stub's own error.
C8_StubFailureIsNormalized ==
    (call.op \in SingleCallOps /\ response.status = "error") =>
        /\ outcome.kind = "raise"
        /\ outcome.exc = _handle_response_error(StubError)

(***************************************************************************)
(* Properties of deletion, error messages and identifiers.                 *)
(***************************************************************************)
\* The name a delete operation was asked to delete: its last argument, or
\* the name of that argument when it is an object with a name.
DeletedName == ResolveName(LeafArg)

\* C11: every delete operation (queue, topic, subscription, rule) called
\* with an empty or missing leaf name raises the empty-identifier error
\* and issues no request.
C11_DeleteEmptyNameRaisesBeforeRequest ==
    (call.op \in DeleteOps /\ DeletedName \in {Str(""), None}) =>
        /\ outcome.kind = "raise"
        /\ outcome.exc.type = "ValueError"
        /\ requests = <<>>

\* The position of each label in a not-found message template; the
\* arguments of the error are kept in the order they are formatted in.
LabelPosition(template, label) ==
    CASE template = "Subscription('Topic: {}, Subscription: {}') does not exist" ->
             (IF label = "Topic" THEN 1 ELSE IF label = "Subscription" THEN 2 ELSE 0)
      [] template = "Rule('Topic: {}, Subscription: {}, Rule {}') does not exist" ->
             (IF label = "Topic" THEN 1 ELSE IF label = "Subscription" THEN 2
              ELSE IF label = "Rule" THEN 3 ELSE 0)
      [] OTHER -> 0

\* The value the message of error `exc` shows under `label`.
Labelled(exc, label) ==
    LET i == LabelPosition(exc.template, label) IN
    IF i \in DOMAIN exc.args THEN exc.args[i] ELSE [type |-> "absent"]

\* C12: the not-found error of get_subscription, get_subscription_runtime_info
\* and get_rule shows the resolved topic name under the Topic label, the
\* subscription name under the Subscription label and, for a rule, the rule
\* name under the Rule label.
C12_NotFoundNamesUnderOwnLabels ==
    (/\ call.op \in {"get_subscription", "get_subscription_runtime_info", "get_rule"}
     /\ EmptyContent) =>
        /\ outcome.kind = "raise"
        /\ Labelled(outcome.exc, "Topic") = ResolveName(call.args[1])
        /\ Labelled(outcome.exc, "Subscription") = ResolveName(call.args[2])
        /\ call.op = "get_rule" => Labelled(outcome.exc, "Rule") = call.args[3]

\* The identifier the claim gives for argument x: the name of an object
\* that has one, the argument itself otherwise.
Identifier(x) == IF "name" \in DOMAIN x THEN x.name ELSE x

RuntimeInfoOps ==
    {"get_queue_runtime_info", "get_topic_runtime_info", "get_subscription_runtime_info"}

\* The last call has sent (or, for a listing, prepared) a request whose
\* path names entities: one path element for each positional argument.
NamesEntities ==
    /\ call.args # <<>>
    /\ \/ call.op \in ListOps
       \/ call.op \in GetOps \cup RuntimeInfoOps \cup CreateOps \cup UpdateOps \cup DeleteOps
          /\ requests # <<>>

SentPath == IF call.op \in ListOps THEN pager.path ELSE requests[1].path

\* C13 as stated: at every entity-naming parameter of every operation, the
\* leaf name of the get operations included, the identifier sent to the stub
\* is the name of the argument when it is an object with a name, and the
\* argument itself otherwise.
C13_IdentifierResolvedEverywhere ==
    NamesEntities =>
        \A i \in DOMAIN call.args : SentPath[i] = Identifier(call.args[i])

\* C13, amended: the rule holds at every parent parameter and at the leaf
\* parameter of create, update and delete; the leaf name of get_X and of
\* get_X_runtime_info is sent as it was given.
C13_IdentifierResolvedExceptGetLeaf ==
    NamesEntities =>
        \A i \in DOMAIN call.args :
            IF i = Len(call.args) /\ call.op \in GetOps \cup RuntimeInfoOps
            THEN SentPath[i] = call.args[i]
            ELSE SentPath[i] = Identifier(call.args[i])

C13_Witness ==
    /\ call.op = "get_rule"
    /\ call.args[1].type = "TopicDescription"
    /\ call.args[2].type = "SubscriptionDescription"
    /\ LeafArg.type = "RuleDescription"
    /\ requests # <<>>
    /\ requests[1].path = <<None, Str(""), LeafArg>>

(***************************************************************************)
(* Laziness of the listings (ListSpec).                                    *)
(***************************************************************************)
\* The sequence is as list_X returned it: the consumer has not advanced it.
NotAdvanced ==
    /\ pager.status = "open"
    /\ ~pager.did_a_call_already
    /\ pager.current_page = <<>>
    /\ yielded = <<>>

\* C14: a list_X call returns its sequence without any request and without
\* an error; requests and errors come only with the consumer's advances,
\* and when the request for page k fails, the failure reaches the consumer
\* after exactly the entries of pages 1..k-1 were yielded, in order.
C14_ListingIsLazy ==
    (call.op \in ListOps) =>
        /\ NotAdvanced => (requests = <<>> /\ outcome = Return(pager))
        /\ outcome.kind = "raise" => (requests # <<>> /\ ~NotAdvanced)
        /\ pager.status = "failed" =>
              /\ Len(requests) = feed.fail_at
              /\ outcome = StubFailure(requests[Len(requests)])
              /\ Len(yielded) = EntriesUpTo(feed.fail_at - 1)
              /\ \A i \in 1..Len(yielded) :
                    yielded[i].name = EntryKey(AllEntries(feed.pages)[i])

C14_Witness ==
    /\ call.op = "list_topics"
    /\ pager.status = "failed"
    /\ feed.fail_at = 2
    /\ Len(requests) = 2
    /\ Len(yielded) = MaxPageLen

(***************************************************************************)
(* Lifecycle, construction and statelessness (ClientSpec, BuildSpec).      *)
(***************************************************************************)
\* C15: leaving a `with client:` block, at its end or by an exception,
\* leaves the client as an explicit close leaves it: the transport of its
\* pipeline is released; an exception that ended the block goes on to the
\* caller.
C15_ScopedExitReleasesAsClose ==
    (call.op \in {"__exit__", "close"}) =>
        /\ client = close(DefaultClient)
        /\ client._pipeline.transport.closed
        /\ call.op = "__exit__" =>
              /\ ~scoped
              /\ call.args[1] # None => outcome = Raise(call.args[1])

C15_Witness ==
    /\ call.op = "__exit__"
    /\ call.args[1] # None
    /\ call.args[1].type = "ResourceNotFoundError"
    /\ client._pipeline.transport.closed

\* The host part of an endpoint: what follows its first "//", or all of it
\* when it has no "//".
HasSlashesAt(e, i) == i + 1 <= Len(e) /\ e[i] = "/" /\ e[i + 1] = "/"
HostPart(e) ==
    IF \E i \in 1..Len(e) : HasSlashesAt(e, i)
    THEN LET first == CHOOSE i \in 1..Len(e) :
                          HasSlashesAt(e, i) /\ \A j \in 1..(i - 1) : ~HasSlashesAt(e, j)
         IN [j \in 1..(Len(e) - first - 1) |-> e[first + 1 + j]]
    ELSE e

\* C16: a client built by from_connection_string has the namespace host,
\* the endpoint and the credential kind of the client built directly with
\* the host part of the connection string's endpoint and a shared-key
\* credential made of its key name and key.
C16_ConnectionStringAsDirect ==
    (call.op = "from_connection_string") =>
        LET conn_str == call.args[1]
            direct == __init__(HostPart(conn_str.Endpoint),
                               ServiceBusSharedKeyCredential(conn_str.SharedAccessKeyName,
                                                             conn_str.SharedAccessKey))
        IN /\ client.fully_qualified_namespace = direct.fully_qualified_namespace
           /\ client._endpoint = direct._endpoint
           /\ client._credential.type = direct._credential.type
           /\ client._credential.type = "ServiceBusSharedKeyCredential"

C16_Witness ==
    /\ call.op = "from_connection_string"
    /\ call.args[1].Endpoint = <<"/", "/", "/", "/">>
    /\ client.fully_qualified_namespace = <<"/", "/">>
    /\ client._endpoint = HTTPS \o <<"/", "/">>

\* The types of the policies of the client's pipeline, in order.
PolicyTypes == [i \in DOMAIN client._pipeline.policies |-> client._pipeline.policies[i].type]

PositionOf(type) == CHOOSE i \in DOMAIN PolicyTypes : PolicyTypes[i] = type

CredentialPolicyType ==
    IF client._credential.type = "ServiceBusSharedKeyCredential"
    THEN "ServiceBusSharedKeyCredentialPolicy" ELSE "BearerTokenCredentialPolicy"

\* C17: the pipeline of a client runs request-id, headers, user-agent,
\* proxy, content decoding, XML workaround, redirect, retry, credential,
\* logging, distributed tracing and HTTP logging in this order; the
\* credential policy is the shared-key policy exactly for a shared-key
\* credential and the bearer-token policy otherwise, is made of the client's
\* credential, and comes after the retry policy.
C17_PipelinePolicyOrder ==
    (client # NoClient) =>
        /\ PolicyTypes = <<"RequestIdPolicy", "HeadersPolicy", "UserAgentPolicy",
                           "ProxyPolicy", "ContentDecodePolicy",
                           "ServiceBusXMLWorkaroundPolicy", "RedirectPolicy",
                           "RetryPolicy", CredentialPolicyType,
                           "NetworkTraceLoggingPolicy", "DistributedTracingPolicy",
                           "HttpLoggingPolicy">>
        /\ client._pipeline.policies[PositionOf(CredentialPolicyType)].credential
               = client._credential
        /\ PositionOf("RetryPolicy") < PositionOf(CredentialPolicyType)

C17_Witness ==
    /\ call.op = "__init__"
    /\ client._credential.type = "TokenCredential"
    /\ client._pipeline.policies[9].type = "BearerTokenCredentialPolicy"
    /\ client._pipeline.policies[8].type = "RetryPolicy"

\* The operations that talk to the service.
ServiceOps == SingleCallOps \cup RuntimeInfoOps \cup ListOps

RequestedName == IF call.op \in GetOps THEN LeafArg ELSE Identifier(LeafArg)

\* C19: every object returned by a successful get_X or create_X (queue,
\* topic, subscription, rule) carries the requested leaf name as its name,
\* whatever title the entry and whatever name its content carry.
C19_ReturnedNameIsRequestedName ==
    (call.op \in GetOps \cup CreateOps /\ outcome.kind = "return") =>
        outcome.value.name = RequestedName

\* C20: a get, create, update or delete call makes at most one request to
\* the stub layer, and exactly one when the stub fails (no second attempt);
\* a create makes exactly one request, a PUT, with no GET before it; a get
\* makes exactly one GET, and a get that repeats the get before it makes
\* its own GET for the same path.
C20_AtMostOneRequestPerCall ==
    /\ call.op \in SingleCallOps \cup RuntimeInfoOps =>
          /\ Len(requests) <= 1
          /\ response.status = "error" => Len(requests) = 1
    /\ call.op \in CreateOps => (Len(requests) = 1 /\ requests[1].method = "put")
    /\ call.op \in GetOps => (Len(requests) = 1 /\ requests[1].method = "get")
    /\ earlier.repeated =>
          /\ Len(earlier.requests) = 1
          /\ Len(requests) = 1
          /\ requests[1].path = earlier.requests[1].path

C20_Witness ==
    /\ call.op = "get_topic"
    /\ earlier.repeated
    /\ outcome.kind = "return"
    /\ Len(earlier.requests) + Len(requests) = 2

\* C21: the PUT of update_queue and update_topic carries, as its options,
\* every keyword argument the caller gave, with its value: the override
\* keywords that were read for the body as well as the others.
C21_UpdateForwardsAllKeywords ==
    (call.op \in {"update_queue", "update_topic"} /\ requests # <<>>) =>
        /\ DOMAIN requests[1].options = DOMAIN call.kwargs
        /\ \A k \in DOMAIN call.kwargs : requests[1].options[k] = call.kwargs[k]

\* An override that was read into the body and is still among the options.
C21_Witness ==
    /\ call.op = "update_queue"
    /\ requests # <<>>
    /\ "max_delivery_count" \in DOMAIN call.kwargs
    /\ SentEntity.max_delivery_count = call.kwargs["max_delivery_count"]
    /\ requests[1].options["max_delivery_count"] = call.kwargs["max_delivery_count"]

====
